---- MODULE Spec2Model ----
(***************************************************************************)
(* A model of cmdexec: the process-wide executor switchboard               *)
(* (cmdexec.go, executor.go), the mock executor and its registry           *)
(* (mock.go) and the test handle of internal/mockt.                        *)
(*                                                                         *)
(* Go strings and []byte values are sequences of byte values (0..255).     *)
(* A *MockCommand is an identifier into CmdPool, so that "the very same    *)
(* command" is equality of identifiers.                                    *)
(***************************************************************************)
EXTENDS Integers, Sequences, FiniteSets, TLC

----------------------------------------------------------------------------
(* Bounds of the model.                                                    *)

\* UseMockExecutor calls one test makes.
MaxInstalls == 2
\* AddCommand calls made on one MockExecutor.
MaxAdds == 3
\* SetStdin calls made in all.
MaxSetStdin == 2

----------------------------------------------------------------------------
(* Strings.                                                                *)

SP == <<32>>

RECURSIVE Join(_, _)
\* strings.Join(elems, sep)
Join(elems, sep) ==
    IF Len(elems) = 0 THEN <<>>
    ELSE IF Len(elems) = 1 THEN elems[1]
    ELSE elems[1] \o sep \o Join(Tail(elems), sep)

\* One character of the standard base64 alphabet, as its ASCII code.
B64Char(i) ==
    IF i < 26 THEN 65 + i
    ELSE IF i < 52 THEN 97 + (i - 26)
    ELSE IF i < 62 THEN 48 + (i - 52)
    ELSE IF i = 62 THEN 43
    ELSE 47

B64Pad == 61

RECURSIVE EncodeToString(_)
\* base64.StdEncoding.EncodeToString(src): three bytes become four
\* characters, a trailing group of one or two bytes is padded with '='.
EncodeToString(src) ==
    IF Len(src) = 0 THEN <<>>
    ELSE IF Len(src) = 1 THEN
        << B64Char(src[1] \div 4), B64Char((src[1] % 4) * 16), B64Pad, B64Pad >>
    ELSE IF Len(src) = 2 THEN
        << B64Char(src[1] \div 4),
           B64Char((src[1] % 4) * 16 + (src[2] \div 16)),
           B64Char((src[2] % 16) * 4),
           B64Pad >>
    ELSE
        << B64Char(src[1] \div 4),
           B64Char((src[1] % 4) * 16 + (src[2] \div 16)),
           B64Char((src[2] % 16) * 4 + (src[3] \div 64)),
           B64Char(src[3] % 64) >>
        \o EncodeToString(SubSeq(src, 4, Len(src)))

\* MockExecutor.getCommandKey(name, args...)
getCommandKey(name, args) == EncodeToString(name \o SP \o Join(args, SP))

----------------------------------------------------------------------------
(* Values.                                                                 *)

Tests == {"t1", "t2"}
\* Goroutines that are not tests and only create commands.
Workers == {"g1"}
Procs == Tests \cup Workers

\* stdExecutor / the real-OS path lookup.
Std == "std"
\* An executorFn value: stdExecutor, or the executor method of the
\* MockExecutor of test t (each test builds one MockExecutor, named t).
Fns == {Std} \cup Tests

echo == <<101, 99, 104, 111>>
hi == <<104, 105>>
ls == <<108, 115>>
sA == <<97>>
sB == <<98>>
sC == <<99>>

\* fmt.Errorf(format, x, y), kept as the format and its operands.
Errorf(format, x, y) == [fmt |-> format, x |-> x, y |-> y]
NilErr == Errorf("<nil>", <<>>, <<>>)
ErrBoom == Errorf("boom", <<>>, <<>>)
\* io.EOF
EOF == Errorf("EOF", <<>>, <<>>)

MockCommand(Name, Args, Stdout, Stderr, Stdin, Err) ==
    [Name |-> Name, Args |-> Args, Stdout |-> Stdout, Stderr |-> Stderr,
     Stdin |-> Stdin, Err |-> Err]

\* The MockCommand values tests construct; the index is the pointer.
CmdPool ==
    << MockCommand(echo, <<hi>>, <<72, 73>>, <<>>, <<>>, NilErr),
       MockCommand(sA, <<>>, <<>>, <<>>, <<>>, NilErr),
       MockCommand(sA, <<<<>>>>, <<>>, <<>>, <<>>, NilErr),
       MockCommand(sA, <<sB \o SP \o sC>>, <<120>>, <<>>, <<>>, NilErr),
       MockCommand(sA, <<sB \o SP \o sC>>, <<121>>, <<>>, <<>>, NilErr),
       MockCommand(sA, <<sB, sC>>, <<>>, <<>>, <<>>, NilErr),
       MockCommand(sA \o SP \o sB, <<sC>>, <<>>, <<>>, <<>>, NilErr),
       MockCommand(sA, <<sB>>, <<>>, <<>>, <<>>, NilErr),
       MockCommand(sC, <<>>, <<111>>, <<101>>, <<1>>, NilErr),
       MockCommand(sC, <<sA>>, <<111>>, <<101>>, <<1, 2>>, ErrBoom),
       MockCommand(sC, <<sB>>, <<111>>, <<101>>, <<>>, ErrBoom),
       MockCommand(sC, <<sC>>, <<111>>, <<101>>, <<1, 0>>, NilErr) >>

CmdIds == 1..Len(CmdPool)
\* Commands registered while the switchboard is exercised.
SwitchCmds == {1}
\* Commands registered while the registry is exercised.
RegistryCmds == 2..8
\* Commands run while the stdin check is exercised.
StdinCmds == 9..12
\* Commands run while their outputs and setters are exercised.
OutputCmds == {1, 10, 11}

\* Invocations made through Command while the switchboard is exercised.
SwitchCalls == { <<echo, <<hi>>>>, <<ls, <<>>>> }
\* Invocations dispatched while the registry is exercised.
RegistryCalls ==
    { <<CmdPool[i].Name, CmdPool[i].Args>> : i \in RegistryCmds }
        \cup { <<sB, <<>>>> }
\* Names looked up through LookPath.
LookNames == {echo}
\* Contents of the readers handed to SetStdin.
Sources == { <<>>, <<1>>, <<2>>, <<1, 2>>, <<1, 2, 3>> }

RECURSIVE Zeros(_)
Zeros(n) == IF n = 0 THEN <<>> ELSE <<0>> \o Zeros(n - 1)

\* cap(c.Stdout) - len(c.Stdout) of command i: none, exactly room for
\* Stderr, or more, depending on how the test built the slice.
StdoutSpare(i) == i % 3

\* The names the PATH of the machine is asked for.
OSNames == {echo}
\* exec.LookPath found nothing.
NotFound == <<>>
\* "/u/echo", where the PATH of the machine has echo when it has it.
usrEcho == <<47, 117, 47>> \o echo
\* "/bin/echo", the path tests register for echo.
binEcho == <<47, 98, 105, 110, 47>> \o echo

\* An io.Reader: nil, or a bytes.Buffer holding the unread bytes.
NilReader == [isNil |-> TRUE, buf |-> <<>>]
NewBuffer(bytes) == [isNil |-> FALSE, buf |-> bytes]

NoCall == [name |-> <<>>, args |-> <<>>]
\* What a call gave back: nothing yet, the real exec.Cmd wrapper ("std"),
\* a *MockCommand ("cmd"), bytes and an error ("value"), or a panic.
Result(kind, cmd, out, err) == [kind |-> kind, cmd |-> cmd, out |-> out, err |-> err]
NoRet == Result("none", 0, <<>>, NilErr)

EmptyMap == [k \in {} |-> 0]

----------------------------------------------------------------------------
(* State.                                                                  *)

VARIABLES
    executor,           \* executor.go: var executor executorFn
    lookPath,           \* the current path resolver
    executorRLock,      \* TRUE when the mutex is locked
    executorWLock,      \* TRUE when the mutex is locked
    pc,                 \* where each goroutine is
    originalExecutor,   \* UseMockExecutor's local, captured by the closure
    originalLookPath,   \* UseMockExecutor's local, captured by the closure
    failed,             \* mockt.t.failed
    fatalArgs,          \* mockt.t.args
    cleanup,            \* mockt.t.cleanup: "nil" or "restore"
    cmds,               \* MockExecutor.cmds of each test's mock: key -> command
    stdin,              \* MockCommand.stdin of each command
    stdoutArr,          \* the array behind MockCommand.Stdout of each command
    lookups,            \* the path registry of each test's mock: name -> entry
    osPaths,            \* what the PATH of the machine resolves: name -> path
    call,               \* the arguments of the call a goroutine is in
    ret,                \* what the call a goroutine is in has produced
    \* History, read by the properties only.
    calls,              \* UseMockExecutor calls each test has made
    nCleanup,           \* t.Cleanup calls each test handle has received
    added,              \* the commands given to AddCommand, in order
    nSetStdin,          \* SetStdin calls made so far
    everSet,            \* the commands SetStdin was called on
    startActive,        \* the substitution in force when the call started
    startCleaned,       \* the tests already cleaned up when the call started
    served,             \* the function the call was resolved by
    srcBefore,          \* the reader's content when the last stdin check began
    lastOp              \* the MockCommand method called last

vars == << executor, lookPath, executorRLock, executorWLock, pc,
           originalExecutor, originalLookPath, failed, fatalArgs, cleanup,
           cmds, stdin, call, ret, calls, nCleanup, added, nSetStdin, everSet,
           startActive, startCleaned, served, srcBefore, stdoutArr,
           lookups, osPaths, lastOp >>

switchVars == << executor, lookPath, executorRLock, executorWLock >>
handleVars == << failed, fatalArgs, cleanup, nCleanup >>
localVars == << originalExecutor, originalLookPath >>
mockVars == << cmds, added, lookups >>
cmdVars == << stdin, nSetStdin, everSet, srcBefore, stdoutArr, lastOp >>
osVars == << osPaths >>
callVars == << call, ret, startActive, startCleaned, served >>

\* The state at program start: the package globals of executor.go and
\* nothing constructed yet.
Init ==
    /\ executor = Std
    /\ lookPath = Std
    /\ executorRLock = FALSE
    /\ executorWLock = FALSE
    /\ pc = [p \in Procs |-> "idle"]
    /\ originalExecutor = [t \in Tests |-> "nil"]
    /\ originalLookPath = [t \in Tests |-> "nil"]
    /\ failed = [t \in Tests |-> FALSE]
    /\ fatalArgs = [t \in Tests |-> ""]
    /\ cleanup = [t \in Tests |-> "nil"]
    /\ cmds = [t \in Tests |-> EmptyMap]
    /\ stdin = [i \in CmdIds |-> NilReader]
    /\ call = [p \in Procs |-> NoCall]
    /\ ret = [p \in Procs |-> NoRet]
    /\ calls = [t \in Tests |-> 0]
    /\ nCleanup = [t \in Tests |-> 0]
    /\ added = [t \in Tests |-> <<>>]
    /\ nSetStdin = 0
    /\ everSet = {}
    /\ startActive = [p \in Procs |-> "none"]
    /\ startCleaned = [p \in Procs |-> {}]
    /\ served = [p \in Procs |-> "none"]
    /\ srcBefore = NilReader
    /\ stdoutArr = [i \in CmdIds |-> CmdPool[i].Stdout \o Zeros(StdoutSpare(i))]
    /\ lookups = [t \in Tests |-> EmptyMap]
    /\ osPaths = [n \in OSNames |-> NotFound]
    /\ lastOp = "none"

----------------------------------------------------------------------------
(* The mock executor (mock.go).                                            *)

\* The panic value of MockExecutor.executor for an unregistered command.
NoCommandError(name, arg) ==
    Errorf("cmdexec: no command registered for '%s %s' missing call to MockExecutor.AddCommand?",
           name, Join(arg, SP))

\* MockExecutor.executor(ctx, name, arg...) on the registry reg: the
\* registered command, or a panic.
MockExecutorFn(reg, name, arg) ==
    LET key == getCommandKey(name, arg) IN
    IF key \in DOMAIN reg
        THEN Result("cmd", reg[key], <<>>, NilErr)
        ELSE Result("panic", 0, <<>>, NoCommandError(name, arg))

\* e.cmds[key] = cmd
MapPut(reg, key, id) ==
    [k \in DOMAIN reg \cup {key} |-> IF k = key THEN id ELSE reg[k]]

\* MockExecutor.AddCommand(cmd) on the mock of test m.
AddCommand(m, id) ==
    /\ Len(added[m]) < MaxAdds
    /\ cmds' = [cmds EXCEPT ![m] =
                  MapPut(@, getCommandKey(CmdPool[id].Name, CmdPool[id].Args), id)]
    /\ added' = [added EXCEPT ![m] = Append(@, id)]
    /\ UNCHANGED lookups
    /\ UNCHANGED << switchVars, pc, localVars, osVars, handleVars, cmdVars, callVars, calls >>

\* stdExecutor(ctx, name, arg...): the wrapper of the real exec.Cmd.
stdExecutor(name, arg) == Result("std", 0, <<>>, NilErr)

\* executor(ctx, name, arg...) for the function value fn.
CallExecutor(fn, name, arg) ==
    IF fn = Std THEN stdExecutor(name, arg) ELSE MockExecutorFn(cmds[fn], name, arg)

\* exec.ErrNotFound
ErrNotFound == Errorf("executable file not found in $PATH", <<>>, <<>>)

\* An entry of the path registry: a resolved path, or an error.
PathEntry(path, err) == [path |-> path, err |-> err]

\* MockExecutor.AddLookPath(name, path) on the mock of test m: the entry
\* of name is replaced.
AddLookPath(m, name, path) ==
    /\ lookups' = [lookups EXCEPT ![m] = MapPut(@, name, PathEntry(path, NilErr))]
    /\ UNCHANGED << switchVars, pc, localVars, osVars, handleVars, cmds, added,
                    cmdVars, callVars, calls >>

\* MockExecutor.AddLookPathError(name, err) on the mock of test m.
AddLookPathError(m, name, err) ==
    /\ lookups' = [lookups EXCEPT ![m] = MapPut(@, name, PathEntry(<<>>, err))]
    /\ UNCHANGED << switchVars, pc, localVars, osVars, handleVars, cmds, added,
                    cmdVars, callVars, calls >>

\* The panic value of the mock's resolver for an unregistered name.
NoLookPathError(name) ==
    Errorf("cmdexec: no LookPath registered for %q missing call to MockExecutor.AddLookPath?",
           name, <<>>)

\* MockExecutor.lookPath(file) on the path registry reg: the registered
\* path, the registered error with an empty path, or a panic.
MockLookPathFn(reg, file) ==
    IF file \notin DOMAIN reg
        THEN Result("panic", 0, <<>>, NoLookPathError(file))
    ELSE IF reg[file].err # NilErr
        THEN Result("value", 0, <<>>, reg[file].err)
        ELSE Result("value", 0, reg[file].path, NilErr)

\* exec.LookPath(file): what the PATH of the machine resolves file to.
execLookPath(file) ==
    IF file \in DOMAIN osPaths /\ osPaths[file] # NotFound
        THEN PathEntry(osPaths[file], NilErr)
        ELSE PathEntry(<<>>, ErrNotFound)

\* lookPath(file) for the function value fn: the real lookup, or the
\* resolver of the mock of test fn.
CallLookPath(fn, file) ==
    IF fn = Std
        THEN Result("std", 0, execLookPath(file).path, execLookPath(file).err)
        ELSE MockLookPathFn(lookups[fn], file)

\* A dispatch that hands out the command as if newly made, no reader set.
DispatchFresh(p, m, name, arg) ==
    LET r == MockExecutorFn(cmds[m], name, arg) IN
    /\ call' = [call EXCEPT ![p] = [name |-> name, args |-> arg]]
    /\ ret' = [ret EXCEPT ![p] = r]
    /\ stdin' = IF r.kind = "cmd" THEN [stdin EXCEPT ![r.cmd] = NilReader] ELSE stdin
    /\ UNCHANGED << switchVars, pc, localVars, osVars, handleVars, mockVars, nSetStdin,
                    everSet, srcBefore, stdoutArr, lastOp,
                    startActive, startCleaned, served, calls >>

\* MockExecutor.executor called on the mock of test m by goroutine p.
Dispatch(p, m, name, arg) ==
    /\ call' = [call EXCEPT ![p] = [name |-> name, args |-> arg]]
    /\ ret' = [ret EXCEPT ![p] = MockExecutorFn(cmds[m], name, arg)]
    /\ UNCHANGED << switchVars, pc, localVars, osVars, handleVars, mockVars, cmdVars,
                    startActive, startCleaned, served, calls >>

----------------------------------------------------------------------------
(* MockCommand (mock.go).                                                  *)

Min(x, y) == IF x < y THEN x ELSE y

\* bytes.Buffer.Read(p) with len(p) = n > 0 on a buffer holding buf: EOF
\* when nothing is left, else as many bytes as there are, up to n. got is
\* p afterwards: make() zeroed it and Read filled its first bytes.
BufferRead(buf, n) ==
    IF Len(buf) = 0
        THEN [got |-> Zeros(n), rest |-> buf, err |-> EOF]
        ELSE LET k == Min(n, Len(buf)) IN
             [got |-> SubSeq(buf, 1, k) \o Zeros(n - k),
              rest |-> SubSeq(buf, k + 1, Len(buf)),
              err |-> NilErr]

ErrNotProvided ==
    Errorf("expected stdin to be provided but it was not (was SetStdin() called?)",
           <<>>, <<>>)

\* A check that takes a missing reader for an empty one.
checkStdinNilAsEmpty(cmd, rd) ==
    IF Len(cmd.Stdin) = 0 THEN [err |-> NilErr, rd |-> rd]
    ELSE LET r == BufferRead(rd.buf, Len(cmd.Stdin)) IN
         IF r.err # NilErr THEN [err |-> r.err, rd |-> rd]
         ELSE IF r.got # cmd.Stdin
             THEN [err |-> Errorf("expected stdin set by SetStdin() to be %q but got %q",
                                  cmd.Stdin, r.got \o r.rest),
                   rd |-> NewBuffer(<<>>)]
             ELSE [err |-> NilErr, rd |-> NewBuffer(r.rest)]

\* A check that does not return early when no stdin is expected.
checkStdinNoEmptyGuard(cmd, rd) ==
    IF rd.isNil THEN [err |-> ErrNotProvided, rd |-> rd]
    ELSE LET r == BufferRead(rd.buf, Len(cmd.Stdin)) IN
         IF r.err # NilErr THEN [err |-> r.err, rd |-> NewBuffer(r.rest)]
         ELSE IF r.got # cmd.Stdin
             THEN [err |-> Errorf("expected stdin set by SetStdin() to be %q but got %q",
                                  cmd.Stdin, r.got \o r.rest),
                   rd |-> NewBuffer(<<>>)]
             ELSE [err |-> NilErr, rd |-> NewBuffer(r.rest)]

\* MockCommand.checkStdin on command cmd whose stdin field is rd: the
\* error returned and the reader as the check leaves it. io.ReadAll of a
\* bytes.Buffer gives what is left of it and never fails.
checkStdin(cmd, rd) ==
    IF Len(cmd.Stdin) = 0 THEN [err |-> NilErr, rd |-> rd]
    ELSE IF rd.isNil THEN [err |-> ErrNotProvided, rd |-> rd]
    ELSE LET r == BufferRead(rd.buf, Len(cmd.Stdin)) IN
         IF r.err # NilErr THEN [err |-> r.err, rd |-> NewBuffer(r.rest)]
         ELSE IF r.got # cmd.Stdin
             THEN [err |-> Errorf("expected stdin set by SetStdin() to be %q but got %q",
                                  cmd.Stdin, r.got \o r.rest),
                   rd |-> NewBuffer(<<>>)]
             ELSE [err |-> NilErr, rd |-> NewBuffer(r.rest)]

\* A Run that lets the scripted Err win over the outcome of the check.
RunErrorScriptedFirst(cmd, chk) == IF cmd.Err # NilErr THEN cmd.Err ELSE chk.err

\* The error MockCommand.Run returns, given the outcome of checkStdin.
RunError(cmd, chk) == IF chk.err # NilErr THEN chk.err ELSE cmd.Err

\* append(s, t...) where s is the first n elements of the array arr and
\* cap(s) is Len(arr): written in place when t fits, else into a new
\* array. arr is the array of s afterwards, out the slice returned.
appendClobber(arr, n, t) ==
    [arr |-> t \o SubSeq(arr, Len(t) + 1, Len(arr)), out |-> SubSeq(arr, 1, n) \o t]

append(arr, n, t) ==
    IF n + Len(t) <= Len(arr)
        THEN [arr |-> SubSeq(arr, 1, n) \o t \o SubSeq(arr, n + Len(t) + 1, Len(arr)),
              out |-> SubSeq(arr, 1, n) \o t]
        ELSE [arr |-> arr, out |-> SubSeq(arr, 1, n) \o t]

\* c.Stdout of command id: the slice the field holds, read from its array.
Stdout(id) == SubSeq(stdoutArr[id], 1, Len(CmdPool[id].Stdout))

\* A method of command id that runs it: the stdin check consumes the
\* reader, and out and the run error are handed back to goroutine p.
RunWith(p, id, out) ==
    LET chk == checkStdin(CmdPool[id], stdin[id]) IN
    /\ srcBefore' = stdin[id]
    /\ stdin' = [stdin EXCEPT ![id] = chk.rd]
    /\ ret' = [ret EXCEPT ![p] = Result("value", id, out, RunError(CmdPool[id], chk))]
    /\ UNCHANGED << switchVars, pc, localVars, osVars, handleVars, mockVars, nSetStdin,
                    everSet, call, startActive, startCleaned, served, calls >>

\* MockCommand.Run()
Run(p, id) ==
    /\ RunWith(p, id, <<>>)
    /\ lastOp' = "Run"
    /\ UNCHANGED stdoutArr

\* The methods of MockCommand that run it.
RunMethods == {"Run", "Output", "CombinedOutput"}

\* An Output that hands back what CombinedOutput does.
OutputWithStderr(p, id) ==
    /\ RunWith(p, id, Stdout(id) \o CmdPool[id].Stderr)
    /\ lastOp' = "Output"
    /\ UNCHANGED stdoutArr

\* MockCommand.Output()
Output(p, id) ==
    /\ RunWith(p, id, Stdout(id))
    /\ lastOp' = "Output"
    /\ UNCHANGED stdoutArr

\* MockCommand.CombinedOutput()
CombinedOutput(p, id) ==
    LET a == append(stdoutArr[id], Len(CmdPool[id].Stdout), CmdPool[id].Stderr) IN
    /\ RunWith(p, id, a.out)
    /\ stdoutArr' = [stdoutArr EXCEPT ![id] = a.arr]
    /\ lastOp' = "CombinedOutput"

\* The readers tests hand to SetStdin: bytes.Buffers, and nil.
Buffers == { NewBuffer(src) : src \in Sources }
Readers == Buffers \cup {NilReader}

\* MockCommand.SetStdin(r)
SetStdin(id, r) ==
    /\ nSetStdin < MaxSetStdin
    /\ stdin' = [stdin EXCEPT ![id] = r]
    /\ nSetStdin' = nSetStdin + 1
    /\ everSet' = everSet \cup {id}
    /\ lastOp' = "SetStdin"
    /\ UNCHANGED << switchVars, pc, localVars, osVars, handleVars, mockVars, srcBefore,
                    stdoutArr, callVars, calls >>

\* The setters MockCommand implements by doing nothing.
NoOpSetters == {"SetEnviron", "SetDir", "SetStdout", "SetStderr", "UseOSStreams"}

NoOp(name) ==
    /\ lastOp' = name
    /\ UNCHANGED << switchVars, pc, localVars, osVars, handleVars, mockVars, stdin,
                    nSetStdin, everSet, srcBefore,
                    stdoutArr, callVars, calls >>

\* MockCommand.SetEnviron(env)
SetEnviron(id, env) == NoOp("SetEnviron")

\* MockCommand.SetDir(dir)
SetDir(id, dir) == NoOp("SetDir")

\* MockCommand.SetStdout(w)
SetStdout(id, w) == NoOp("SetStdout")

\* MockCommand.SetStderr(w)
SetStderr(id, w) == NoOp("SetStderr")

\* A UseOSStreams that, like the real-OS wrapper, wires os.Stdin in.
UseOSStreamsWiresStdin(id, b) ==
    /\ lastOp' = "UseOSStreams"
    /\ stdin' = [stdin EXCEPT ![id] = IF b THEN NewBuffer(<<>>) ELSE @]
    /\ UNCHANGED << switchVars, pc, localVars, osVars, handleVars, mockVars,
                    nSetStdin, everSet, srcBefore,
                    stdoutArr, callVars, calls >>

\* MockCommand.UseOSStreams(b)
UseOSStreams(id, b) == NoOp("UseOSStreams")

\* A String that asks the package's current resolver for the path.
StringByResolver(p, id) ==
    LET cmd == CmdPool[id]
        lp == CallLookPath(lookPath, cmd.Name)
        execPath == IF lp.kind # "panic" /\ lp.err = NilErr THEN lp.out ELSE cmd.Name
    IN  /\ pc[p] = "idle"
        /\ ret' = [ret EXCEPT ![p] =
                     Result("value", id, Join(<<execPath>> \o cmd.Args, SP), NilErr)]
        /\ lastOp' = "String"
        /\ UNCHANGED << switchVars, pc, localVars, osVars, handleVars, mockVars, stdin,
                        nSetStdin, everSet, srcBefore,
                    stdoutArr, call, startActive,
                        startCleaned, served, calls >>

\* MockCommand.String(), called by goroutine p between its other calls:
\* exec.LookPath(c.Name) decides the first word.
String(p, id) ==
    LET cmd == CmdPool[id]
        lp == execLookPath(cmd.Name)
        execPath == IF lp.err = NilErr THEN lp.path ELSE cmd.Name
    IN  /\ pc[p] = "idle"
        /\ ret' = [ret EXCEPT ![p] =
                     Result("value", id, Join(<<execPath>> \o cmd.Args, SP), NilErr)]
        /\ lastOp' = "String"
        /\ UNCHANGED << switchVars, pc, localVars, osVars, handleVars, mockVars, stdin,
                        nSetStdin, everSet, srcBefore,
                    stdoutArr, call, startActive,
                        startCleaned, served, calls >>

\* A binary is put on the PATH of the machine.
InstallOnPath(name, path) ==
    /\ osPaths' = [osPaths EXCEPT ![name] = path]
    /\ UNCHANGED << switchVars, pc, localVars, handleVars, mockVars, cmdVars,
                    callVars, calls >>

----------------------------------------------------------------------------
(* sync.Mutex.                                                             *)

\* A TryLock whose result is not looked at.
TryLockAlways(locked) == TRUE

\* Mutex.TryLock succeeds exactly when the mutex is not locked.
TryLock(locked) == ~locked
\* Mutex.Lock returns only once the mutex is not locked.
CanLock(locked) == ~locked

----------------------------------------------------------------------------
(* The test handle (internal/mockt).                                       *)

\* t.Fatal(args...)
Fatal(t, msg) ==
    /\ failed' = [failed EXCEPT ![t] = TRUE]
    /\ fatalArgs' = [fatalArgs EXCEPT ![t] = msg]

\* t.Cleanup(fn): the handle keeps the last function it was given.
Cleanup(t, fn) ==
    /\ cleanup' = [cleanup EXCEPT ![t] = fn]
    /\ nCleanup' = [nCleanup EXCEPT ![t] = @ + 1]

----------------------------------------------------------------------------
(* The switchboard (cmdexec.go): UseMockExecutor.                          *)

InCleanup(t) ==
    pc[t] \in {"cl_rlock", "cl_setExec", "cl_setLook", "cl_wunlock", "cl_runlock"}
CleanupStarted(t) == InCleanup(t) \/ pc[t] = "done"
\* UseMockExecutor has returned successfully for t and t's cleanup has not
\* started.
Active(t) == cleanup[t] = "restore" /\ ~CleanupStarted(t)
ActiveTest == IF \E t \in Tests : Active(t)
                 THEN CHOOSE t \in Tests : Active(t) ELSE "none"

\* The failing branch without its return: the test is failed and the
\* call goes on to swap the pair.
UseMockExecutorFailNoReturn(t) ==
    /\ pc[t] = "idle"
    /\ calls[t] < MaxInstalls
    /\ ~TryLock(executorWLock)
    /\ Fatal(t, "UseMockExecutor can only be called once per test")
    /\ calls' = [calls EXCEPT ![t] = @ + 1]
    /\ pc' = [pc EXCEPT ![t] = "um_rlock"]
    /\ UNCHANGED << switchVars, localVars, osVars, cleanup, nCleanup, mockVars,
                    cmdVars, callVars >>

\* Lines 120-123: TryLock fails, the test is failed and the call returns.
UseMockExecutorFail(t) ==
    /\ pc[t] = "idle"
    /\ calls[t] < MaxInstalls
    /\ ~TryLock(executorWLock)
    /\ Fatal(t, "UseMockExecutor can only be called once per test")
    /\ calls' = [calls EXCEPT ![t] = @ + 1]
    /\ UNCHANGED << switchVars, pc, localVars, osVars, cleanup, nCleanup, mockVars,
                    cmdVars, callVars >>

\* Line 120: TryLock succeeds.
UseMockExecutorTryLock(t) ==
    /\ pc[t] = "idle"
    /\ calls[t] < MaxInstalls
    /\ TryLock(executorWLock)
    /\ executorWLock' = TRUE
    /\ pc' = [pc EXCEPT ![t] = "um_rlock"]
    /\ calls' = [calls EXCEPT ![t] = @ + 1]
    /\ UNCHANGED << executor, lookPath, executorRLock, localVars, osVars, handleVars,
                    mockVars, cmdVars, callVars >>

\* The swap without the read lock taken.
UseMockExecutorRLockSkipped(t) ==
    /\ pc[t] = "um_rlock"
    /\ pc' = [pc EXCEPT ![t] = "um_save"]
    /\ UNCHANGED << switchVars, localVars, osVars, handleVars, mockVars, cmdVars,
                    callVars, calls >>

\* Line 127: executorRLock.Lock()
UseMockExecutorRLock(t) ==
    /\ pc[t] = "um_rlock"
    /\ CanLock(executorRLock)
    /\ executorRLock' = TRUE
    /\ pc' = [pc EXCEPT ![t] = "um_save"]
    /\ UNCHANGED << executor, lookPath, executorWLock, localVars, osVars, handleVars,
                    mockVars, cmdVars, callVars, calls >>

\* Lines 128-129: the current pair is remembered.
UseMockExecutorSave(t) ==
    /\ pc[t] = "um_save"
    /\ originalExecutor' = [originalExecutor EXCEPT ![t] = executor]
    /\ originalLookPath' = [originalLookPath EXCEPT ![t] = lookPath]
    /\ pc' = [pc EXCEPT ![t] = "um_setExec"]
    /\ UNCHANGED << switchVars, handleVars, mockVars, cmdVars, osVars, callVars,
                    calls >>

\* The assignment with the wrong right-hand side.
UseMockExecutorSetExecOriginal(t) ==
    /\ pc[t] = "um_setExec"
    /\ executor' = originalExecutor[t]
    /\ pc' = [pc EXCEPT ![t] = "um_setLook"]
    /\ UNCHANGED << lookPath, executorRLock, executorWLock, localVars, osVars,
                    handleVars, mockVars, cmdVars, callVars, calls >>

\* Line 130: executor = mock.executor
UseMockExecutorSetExec(t) ==
    /\ pc[t] = "um_setExec"
    /\ executor' = t
    /\ pc' = [pc EXCEPT ![t] = "um_setLook"]
    /\ UNCHANGED << lookPath, executorRLock, executorWLock, localVars, osVars,
                    handleVars, mockVars, cmdVars, callVars, calls >>

\* Line 131: lookPath = mock.lookPath
UseMockExecutorSetLook(t) ==
    /\ pc[t] = "um_setLook"
    /\ lookPath' = t
    /\ pc' = [pc EXCEPT ![t] = "um_runlock"]
    /\ UNCHANGED << executor, executorRLock, executorWLock, localVars, osVars,
                    handleVars, mockVars, cmdVars, callVars, calls >>

\* An install that returns with the read lock still held.
UseMockExecutorRUnlockForgotten(t) ==
    /\ pc[t] = "um_runlock"
    /\ pc' = [pc EXCEPT ![t] = "um_cleanup"]
    /\ UNCHANGED << switchVars, localVars, osVars, handleVars,
                    mockVars, cmdVars, callVars, calls >>

\* Line 132: executorRLock.Unlock()
UseMockExecutorRUnlock(t) ==
    /\ pc[t] = "um_runlock"
    /\ executorRLock' = FALSE
    /\ pc' = [pc EXCEPT ![t] = "um_cleanup"]
    /\ UNCHANGED << executor, lookPath, executorWLock, localVars, osVars, handleVars,
                    mockVars, cmdVars, callVars, calls >>

\* Lines 134-147: the closure is registered and UseMockExecutor returns.
UseMockExecutorCleanup(t) ==
    /\ pc[t] = "um_cleanup"
    /\ Cleanup(t, "restore")
    /\ pc' = [pc EXCEPT ![t] = "idle"]
    /\ UNCHANGED << switchVars, localVars, osVars, failed, fatalArgs, mockVars,
                    cmdVars, callVars, calls >>

----------------------------------------------------------------------------
(* The cleanup closure, run once by the test's teardown.                   *)

\* mockt.t.RunCleanup: t.cleanup() is entered.
RunCleanup(t) ==
    /\ pc[t] = "idle"
    /\ cleanup[t] # "nil"
    /\ pc' = [pc EXCEPT ![t] = "cl_rlock"]
    /\ UNCHANGED << switchVars, localVars, osVars, handleVars, mockVars, cmdVars,
                    callVars, calls >>

\* A cleanup that gives the write lock up as soon as it has the read lock.
CleanupRLockReleasesW(t) ==
    /\ pc[t] = "cl_rlock"
    /\ CanLock(executorRLock)
    /\ executorRLock' = TRUE
    /\ executorWLock' = FALSE
    /\ pc' = [pc EXCEPT ![t] = "cl_setExec"]
    /\ UNCHANGED << executor, lookPath, localVars, osVars, handleVars,
                    mockVars, cmdVars, callVars, calls >>

\* Line 137: executorRLock.Lock()
CleanupRLock(t) ==
    /\ pc[t] = "cl_rlock"
    /\ CanLock(executorRLock)
    /\ executorRLock' = TRUE
    /\ pc' = [pc EXCEPT ![t] = "cl_setExec"]
    /\ UNCHANGED << executor, lookPath, executorWLock, localVars, osVars, handleVars,
                    mockVars, cmdVars, callVars, calls >>

\* A cleanup that forgets to restore the executor.
CleanupSetExecForgotten(t) ==
    /\ pc[t] = "cl_setExec"
    /\ pc' = [pc EXCEPT ![t] = "cl_setLook"]
    /\ UNCHANGED << switchVars, localVars, osVars, handleVars, mockVars, cmdVars,
                    callVars, calls >>

\* Line 144: executor = originalExecutor
CleanupSetExec(t) ==
    /\ pc[t] = "cl_setExec"
    /\ executor' = originalExecutor[t]
    /\ pc' = [pc EXCEPT ![t] = "cl_setLook"]
    /\ UNCHANGED << lookPath, executorRLock, executorWLock, localVars, osVars,
                    handleVars, mockVars, cmdVars, callVars, calls >>

\* Line 145: lookPath = originalLookPath
CleanupSetLook(t) ==
    /\ pc[t] = "cl_setLook"
    /\ lookPath' = originalLookPath[t]
    /\ pc' = [pc EXCEPT ![t] = "cl_wunlock"]
    /\ UNCHANGED << executor, executorRLock, executorWLock, localVars, osVars,
                    handleVars, mockVars, cmdVars, callVars, calls >>

\* A cleanup that never unlocks the write lock.
CleanupWUnlockForgotten(t) ==
    /\ pc[t] = "cl_wunlock"
    /\ pc' = [pc EXCEPT ![t] = "cl_runlock"]
    /\ UNCHANGED << switchVars, localVars, osVars, handleVars, mockVars, cmdVars,
                    callVars, calls >>

\* Line 141, deferred last and so run first: executorWLock.Unlock()
CleanupWUnlock(t) ==
    /\ pc[t] = "cl_wunlock"
    /\ executorWLock' = FALSE
    /\ pc' = [pc EXCEPT ![t] = "cl_runlock"]
    /\ UNCHANGED << executor, lookPath, executorRLock, localVars, osVars, handleVars,
                    mockVars, cmdVars, callVars, calls >>

\* Line 140, deferred first and so run last: executorRLock.Unlock()
CleanupRUnlock(t) ==
    /\ pc[t] = "cl_runlock"
    /\ executorRLock' = FALSE
    /\ pc' = [pc EXCEPT ![t] = "done"]
    /\ UNCHANGED << executor, lookPath, executorWLock, localVars, osVars, handleVars,
                    mockVars, cmdVars, callVars, calls >>

----------------------------------------------------------------------------
(* The switchboard (cmdexec.go): Command, CommandContext and LookPath.     *)

\* What the properties remember of the moment a call starts.
StartCall(p, name, arg) ==
    /\ call' = [call EXCEPT ![p] = [name |-> name, args |-> arg]]
    /\ ret' = [ret EXCEPT ![p] = NoRet]
    /\ startActive' = [startActive EXCEPT ![p] = ActiveTest]
    /\ startCleaned' = [startCleaned EXCEPT ![p] = {t \in Tests : pc[t] = "done"}]
    /\ served' = [served EXCEPT ![p] = "none"]

\* What is forgotten when a call is over.
EndCall(p) ==
    /\ call' = [call EXCEPT ![p] = NoCall]
    /\ ret' = [ret EXCEPT ![p] = NoRet]
    /\ startActive' = [startActive EXCEPT ![p] = "none"]
    /\ startCleaned' = [startCleaned EXCEPT ![p] = {}]
    /\ served' = [served EXCEPT ![p] = "none"]

\* Lines 71-78: Command(name, arg...) enters CommandContext.
Command(p, name, arg) ==
    /\ pc[p] = "idle"
    /\ StartCall(p, name, arg)
    /\ pc' = [pc EXCEPT ![p] = "cc_rlock"]
    /\ UNCHANGED << switchVars, localVars, osVars, handleVars, mockVars, cmdVars, calls >>

\* Line 79: executorRLock.Lock()
CommandContextRLock(p) ==
    /\ pc[p] = "cc_rlock"
    /\ CanLock(executorRLock)
    /\ executorRLock' = TRUE
    /\ pc' = [pc EXCEPT ![p] = "cc_exec"]
    /\ UNCHANGED << executor, lookPath, executorWLock, localVars, osVars, handleVars,
                    mockVars, cmdVars, callVars, calls >>

\* A dispatch that puts the real executor back when the mock panics.
CommandContextExecResets(p) ==
    LET r == CallExecutor(executor, call[p].name, call[p].args) IN
    /\ pc[p] = "cc_exec"
    /\ ret' = [ret EXCEPT ![p] = r]
    /\ served' = [served EXCEPT ![p] = executor]
    /\ executor' = IF r.kind = "panic" THEN Std ELSE executor
    /\ pc' = [pc EXCEPT ![p] = "cc_runlock"]
    /\ UNCHANGED << lookPath, executorRLock, executorWLock, localVars, osVars,
                    handleVars, mockVars, cmdVars, call, startActive, startCleaned,
                    calls >>

\* Line 82: executor(ctx, name, arg...)
CommandContextExec(p) ==
    /\ pc[p] = "cc_exec"
    /\ ret' = [ret EXCEPT ![p] = CallExecutor(executor, call[p].name, call[p].args)]
    /\ served' = [served EXCEPT ![p] = executor]
    /\ pc' = [pc EXCEPT ![p] = "cc_runlock"]
    /\ UNCHANGED << switchVars, localVars, osVars, handleVars, mockVars, cmdVars,
                    call, startActive, startCleaned, calls >>

\* An Unlock that is not deferred: a panic of the executor skips it.
CommandContextRUnlockNotDeferred(p) ==
    /\ pc[p] = "cc_runlock"
    /\ executorRLock' = (ret[p].kind = "panic")
    /\ EndCall(p)
    /\ pc' = [pc EXCEPT ![p] = "idle"]
    /\ UNCHANGED << executor, lookPath, executorWLock, localVars, osVars, handleVars,
                    mockVars, cmdVars, calls >>

\* Line 80, deferred: executorRLock.Unlock(), on return and on panic.
CommandContextRUnlock(p) ==
    /\ pc[p] = "cc_runlock"
    /\ executorRLock' = FALSE
    /\ EndCall(p)
    /\ pc' = [pc EXCEPT ![p] = "idle"]
    /\ UNCHANGED << executor, lookPath, executorWLock, localVars, osVars, handleVars,
                    mockVars, cmdVars, calls >>

\* Line 88: LookPath(file) is entered.
LookPath(p, file) ==
    /\ pc[p] = "idle"
    /\ StartCall(p, file, <<>>)
    /\ pc' = [pc EXCEPT ![p] = "lp_rlock"]
    /\ UNCHANGED << switchVars, localVars, osVars, handleVars, mockVars, cmdVars, calls >>

\* Line 89: executorRLock.Lock()
LookPathRLock(p) ==
    /\ pc[p] = "lp_rlock"
    /\ CanLock(executorRLock)
    /\ executorRLock' = TRUE
    /\ pc' = [pc EXCEPT ![p] = "lp_call"]
    /\ UNCHANGED << executor, lookPath, executorWLock, localVars, osVars, handleVars,
                    mockVars, cmdVars, callVars, calls >>

\* A LookPath that goes to the real lookup whatever is installed.
LookPathCallStd(p) ==
    /\ pc[p] = "lp_call"
    /\ ret' = [ret EXCEPT ![p] = CallLookPath(Std, call[p].name)]
    /\ served' = [served EXCEPT ![p] = lookPath]
    /\ pc' = [pc EXCEPT ![p] = "lp_runlock"]
    /\ UNCHANGED << switchVars, localVars, osVars, handleVars, mockVars, cmdVars,
                    call, startActive, startCleaned, calls >>

\* Line 92: lookPath(file)
LookPathCall(p) ==
    /\ pc[p] = "lp_call"
    /\ ret' = [ret EXCEPT ![p] = CallLookPath(lookPath, call[p].name)]
    /\ served' = [served EXCEPT ![p] = lookPath]
    /\ pc' = [pc EXCEPT ![p] = "lp_runlock"]
    /\ UNCHANGED << switchVars, localVars, osVars, handleVars, mockVars, cmdVars,
                    call, startActive, startCleaned, calls >>

\* Line 90, deferred: executorRLock.Unlock(), on return and on panic.
LookPathRUnlock(p) ==
    /\ pc[p] = "lp_runlock"
    /\ executorRLock' = FALSE
    /\ EndCall(p)
    /\ pc' = [pc EXCEPT ![p] = "idle"]
    /\ UNCHANGED << executor, lookPath, executorWLock, localVars, osVars, handleVars,
                    mockVars, cmdVars, calls >>

----------------------------------------------------------------------------
(* The switchboard under concurrent tests and goroutines.                  *)

\* A test fills its MockExecutor before it installs it, single-threaded.
InSetup(t) == pc[t] = "idle" /\ calls[t] = 0 /\ added[t] = <<>>

Next ==
    \/ \E t \in Tests, id \in SwitchCmds : InSetup(t) /\ AddCommand(t, id)
    \/ \E t \in Tests : UseMockExecutorFail(t)
    \/ \E t \in Tests : UseMockExecutorTryLock(t)
    \/ \E t \in Tests : UseMockExecutorRLock(t)
    \/ \E t \in Tests : UseMockExecutorSave(t)
    \/ \E t \in Tests : UseMockExecutorSetExec(t)
    \/ \E t \in Tests : UseMockExecutorSetLook(t)
    \/ \E t \in Tests : UseMockExecutorRUnlock(t)
    \/ \E t \in Tests : UseMockExecutorCleanup(t)
    \/ \E t \in Tests : RunCleanup(t)
    \/ \E t \in Tests : CleanupRLock(t)
    \/ \E t \in Tests : CleanupSetExec(t)
    \/ \E t \in Tests : CleanupSetLook(t)
    \/ \E t \in Tests : CleanupWUnlock(t)
    \/ \E t \in Tests : CleanupRUnlock(t)
    \/ \E p \in Procs, inv \in SwitchCalls : Command(p, inv[1], inv[2])
    \/ \E p \in Procs : CommandContextRLock(p)
    \/ \E p \in Procs : CommandContextExec(p)
    \/ \E p \in Procs : CommandContextRUnlock(p)
    \/ \E p \in Procs, file \in LookNames : LookPath(p, file)
    \/ \E p \in Procs : LookPathRLock(p)
    \/ \E p \in Procs : LookPathCall(p)
    \/ \E p \in Procs : LookPathRUnlock(p)

Spec == Init /\ [][Next]_vars

\* The steps of goroutine p that take the read lock: sync.Mutex.Lock at
\* lines 79, 89, 127 and 137.
LockStep(p) ==
    \/ CommandContextRLock(p)
    \/ LookPathRLock(p)
    \/ p \in Tests /\ UseMockExecutorRLock(p)
    \/ p \in Tests /\ CleanupRLock(p)

\* The steps of goroutine p inside a function it has entered that wait
\* for nothing.
RunStep(p) ==
    \/ CommandContextExec(p)
    \/ CommandContextRUnlock(p)
    \/ LookPathCall(p)
    \/ LookPathRUnlock(p)
    \/ /\ p \in Tests
       /\ \/ UseMockExecutorSave(p)
          \/ UseMockExecutorSetExec(p)
          \/ UseMockExecutorSetLook(p)
          \/ UseMockExecutorRUnlock(p)
          \/ UseMockExecutorCleanup(p)
          \/ CleanupSetExec(p)
          \/ CleanupSetLook(p)
          \/ CleanupWUnlock(p)
          \/ CleanupRUnlock(p)

\* The scheduler runs every goroutine that can run, and sync.Mutex hands
\* the lock to a goroutine that keeps waiting for it (starvation mode).
\* Whether a function is called at all is up to the tests.
Fairness ==
    \A p \in Procs : WF_vars(RunStep(p)) /\ SF_vars(LockStep(p))

\* The switchboard with the calls the tests and the goroutine may start,
\* and the steps inside them; the mocks are installed as constructed.
LiveNext ==
    \/ \E t \in Tests : UseMockExecutorFail(t)
    \/ \E t \in Tests : UseMockExecutorTryLock(t)
    \/ \E t \in Tests : RunCleanup(t)
    \/ \E p \in Procs : Command(p, ls, <<>>)
    \/ \E p \in Procs, file \in LookNames : LookPath(p, file)
    \/ \E p \in Procs : LockStep(p)
    \/ \E p \in Procs : RunStep(p)

FairSpec == Init /\ [][LiveNext]_vars /\ Fairness

----------------------------------------------------------------------------
(* One test with its path registry, a goroutine, and the machine's PATH.   *)

\* The registries of a mock are filled before it is installed.
BeforeInstall(t) == pc[t] = "idle" /\ calls[t] = 0

PathNext ==
    \/ \E id \in SwitchCmds : InSetup("t1") /\ AddCommand("t1", id)
    \/ \E n \in LookNames : BeforeInstall("t1") /\ AddLookPath("t1", n, binEcho)
    \/ \E n \in LookNames : BeforeInstall("t1") /\ AddLookPathError("t1", n, ErrNotFound)
    \/ \E n \in OSNames : InstallOnPath(n, usrEcho)
    \/ UseMockExecutorFail("t1")
    \/ UseMockExecutorTryLock("t1")
    \/ UseMockExecutorRLock("t1")
    \/ UseMockExecutorSave("t1")
    \/ UseMockExecutorSetExec("t1")
    \/ UseMockExecutorSetLook("t1")
    \/ UseMockExecutorRUnlock("t1")
    \/ UseMockExecutorCleanup("t1")
    \/ RunCleanup("t1")
    \/ CleanupRLock("t1")
    \/ CleanupSetExec("t1")
    \/ CleanupSetLook("t1")
    \/ CleanupWUnlock("t1")
    \/ CleanupRUnlock("t1")
    \/ \E p \in {"t1", "g1"}, inv \in SwitchCalls : Command(p, inv[1], inv[2])
    \/ \E p \in {"t1", "g1"} : CommandContextRLock(p)
    \/ \E p \in {"t1", "g1"} : CommandContextExec(p)
    \/ \E p \in {"t1", "g1"} : CommandContextRUnlock(p)
    \/ \E p \in {"t1", "g1"}, file \in LookNames : LookPath(p, file)
    \/ \E p \in {"t1", "g1"} : LookPathRLock(p)
    \/ \E p \in {"t1", "g1"} : LookPathCall(p)
    \/ \E p \in {"t1", "g1"} : LookPathRUnlock(p)
    \/ \E id \in SwitchCmds : String("t1", id)

PathSpec == Init /\ [][PathNext]_vars

----------------------------------------------------------------------------
(* Properties of the switchboard.                                          *)

\* Test t is between its successful TryLock and the Unlock of the write
\* lock in its cleanup, told from where t is in its own code.
Substituting(t) ==
    \/ pc[t] \in {"um_rlock", "um_save", "um_setExec", "um_setLook",
                  "um_runlock", "um_cleanup"}
    \/ cleanup[t] = "restore" /\ pc[t] \notin {"cl_runlock", "done"}

\* C1: at most one substitution is active at any instant: two tests are
\* never both between a successful TryLock and their cleanup, a mock that
\* is current belongs to the one test that is, and the pair a substitution
\* remembers is never another mock (substitutions are never chained).
C1_AtMostOneSubstitution ==
    /\ \A t1, t2 \in Tests : Substituting(t1) /\ Substituting(t2) => t1 = t2
    /\ \A t \in Tests : executor = t \/ lookPath = t => Substituting(t)
    /\ \A t \in Tests : /\ originalExecutor[t] \in {"nil", Std}
                        /\ originalLookPath[t] \in {"nil", Std}

\* One test holds the substitution and another test's UseMockExecutor was
\* turned away.
C1_Witness ==
    \E t1, t2 \in Tests :
        /\ t1 # t2
        /\ Substituting(t1) /\ executor = t1 /\ lookPath = t1
        /\ failed[t2] /\ calls[t2] > 0 /\ cleanup[t2] = "nil"

\* C2: a UseMockExecutor call made while a mock is the current executor
\* marks the calling test failed and returns at once, leaving the current
\* executor and path resolver as they were and registering no cleanup.
C2_SecondInstallFails ==
    [][\A t \in Tests :
          (calls'[t] = calls[t] + 1 /\ executor # Std) =>
              /\ failed'[t]
              /\ pc'[t] = "idle"
              /\ executor' = executor /\ lookPath' = lookPath
              /\ cleanup' = cleanup /\ nCleanup' = nCleanup]_vars

\* The test of cmdexec_test.go: the second call of the same test failed
\* it, and its first substitution is still the current pair.
C2_Witness ==
    \E t \in Tests :
        /\ failed[t] /\ calls[t] = 2 /\ nCleanup[t] = 1
        /\ pc[t] = "idle" /\ executor = t /\ lookPath = t

\* C3: once the cleanup of the test that owns a substitution has restored
\* the pair, both are the real-OS functions; the finished test's mock is
\* never current again, and no call that starts after the cleanup has run
\* is resolved by it.
C3_CleanupRestoresDirect ==
    /\ \A t \in Tests : pc[t] \in {"cl_wunlock", "cl_runlock"} =>
                            executor = Std /\ lookPath = Std
    /\ \A t \in Tests : pc[t] = "done" => executor # t /\ lookPath # t
    /\ \A p \in Procs : served[p] \in Tests => served[p] \notin startCleaned[p]

\* A command the finished test had mocked, called after that test's
\* cleanup, went to the real executor.
C3_Witness ==
    \E p \in Procs, t \in Tests :
        /\ pc[p] = "cc_runlock"
        /\ t \in startCleaned[p]
        /\ getCommandKey(call[p].name, call[p].args) \in DOMAIN cmds[t]
        /\ served[p] = Std /\ ret[p].kind = "std"

Resolved(p) == pc[p] \in {"cc_runlock", "lp_runlock"}

\* C4 as claimed: a call that starts after UseMockExecutor returned and
\* before the owning test's cleanup starts is resolved by that mock.
C4_AsClaimed ==
    \A p \in Procs :
        Resolved(p) /\ startActive[p] # "none" => served[p] = startActive[p]

\* C4 as amended: a call that starts after UseMockExecutor returned and
\* takes the read lock before the owning test's cleanup has finished is
\* resolved by that mock, never by the real-OS function.
C4_ResolvedByMock ==
    \A p \in Procs :
        (Resolved(p) /\ startActive[p] # "none" /\ pc[startActive[p]] # "done")
            => served[p] = startActive[p]

\* Another goroutine's Command was answered by the installed mock.
C4_Witness ==
    \E p \in Procs :
        /\ pc[p] = "cc_runlock"
        /\ startActive[p] \in Tests /\ startActive[p] # p
        /\ served[p] = startActive[p] /\ ret[p].kind = "cmd"

\* C5: whenever a CommandContext or LookPath call is reading the pair,
\* the current executor and the current path resolver come from the same
\* source: both real-OS, or both the same mock.
C5_PairSwappedTogether ==
    \A p \in Procs : pc[p] \in {"cc_exec", "lp_call"} => executor = lookPath

\* A goroutine reads the pair while a test's mock is installed, and one
\* reads it after a cleanup restored it.
C5_Witness ==
    \E p, q \in Procs :
        /\ pc[p] = "lp_call" /\ lookPath \in Tests /\ lookPath # p
        /\ executor = lookPath
        /\ pc[q] = "cc_rlock" /\ startCleaned[q] # {}

----------------------------------------------------------------------------
(* The registry of one MockExecutor, filled and dispatched directly.       *)

RegistryNext ==
    \/ \E id \in RegistryCmds : AddCommand("t1", id)
    \/ \E inv \in RegistryCalls : Dispatch("g1", "t1", inv[1], inv[2])

RegistrySpec == Init /\ [][RegistryNext]_vars

----------------------------------------------------------------------------
(* MockCommands run directly, with readers handed to SetStdin.             *)

StdinNext ==
    \/ \E id \in StdinCmds, r \in Buffers : SetStdin(id, r)
    \/ \E id \in StdinCmds : Run("g1", id)
    \/ \E id \in StdinCmds : Output("g1", id)
    \/ \E id \in StdinCmds : CombinedOutput("g1", id)

StdinSpec == Init /\ [][StdinNext]_vars

----------------------------------------------------------------------------
(* Commands fetched from a registry, given readers, and run.               *)

\* The commands registered, both expecting stdin.
SessionCmds == {9, 10}
\* The invocations dispatched.
SessionCalls ==
    { <<CmdPool[i].Name, CmdPool[i].Args>> : i \in SessionCmds } \cup { <<ls, <<>>>> }

\* Goroutine g1 holds a command a dispatch gave it.
Holding == ret["g1"].kind \in {"cmd", "value"}

SessionNext ==
    \/ \E id \in SessionCmds : call["g1"] = NoCall /\ AddCommand("t1", id)
    \/ \E inv \in SessionCalls : Dispatch("g1", "t1", inv[1], inv[2])
    \/ \E r \in Readers : Holding /\ SetStdin(ret["g1"].cmd, r)
    \/ Holding /\ Run("g1", ret["g1"].cmd)

SessionSpec == Init /\ [][SessionNext]_vars

----------------------------------------------------------------------------
(* MockCommands run for their output, with every setter called on them.    *)

OutputNext ==
    \/ \E id \in OutputCmds, src \in {<<2>>, <<1, 2>>} : SetStdin(id, NewBuffer(src))
    \/ \E id \in OutputCmds : Run("g1", id)
    \/ \E id \in OutputCmds : Output("g1", id)
    \/ \E id \in OutputCmds : CombinedOutput("g1", id)
    \/ \E id \in OutputCmds, env \in {<<>>, <<sA>>} : SetEnviron(id, env)
    \/ \E id \in OutputCmds, dir \in {sA} : SetDir(id, dir)
    \/ \E id \in OutputCmds, w \in {"os.Stdout"} : SetStdout(id, w)
    \/ \E id \in OutputCmds, w \in {"os.Stderr"} : SetStderr(id, w)
    \/ \E id \in OutputCmds, b \in BOOLEAN : UseOSStreams(id, b)

OutputSpec == Init /\ [][OutputNext]_vars

----------------------------------------------------------------------------
(* Properties of the registry.                                             *)

RECURSIVE LastFor(_, _, _)
\* The command most recently given to AddCommand, among those of seq,
\* whose Name and Args are exactly name and arg; 0 when there is none.
LastFor(seq, name, arg) ==
    IF Len(seq) = 0 THEN 0
    ELSE LET id == seq[Len(seq)] IN
         IF CmdPool[id].Name = name /\ CmdPool[id].Args = arg
             THEN id
             ELSE LastFor(SubSeq(seq, 1, Len(seq) - 1), name, arg)

\* How many commands of seq have exactly this Name and Args.
TimesAdded(seq, name, arg) ==
    Cardinality({i \in 1..Len(seq) :
                    CmdPool[seq[i]].Name = name /\ CmdPool[seq[i]].Args = arg})

\* Goroutine g1 has just dispatched on the registry of t1.
Dispatched == (call'["g1"] # call["g1"] \/ ret'["g1"] # ret["g1"]) /\ added' = added

\* C6: dispatching a (name, args) pair that was registered returns the
\* very MockCommand registered for that pair, whatever else is registered.
C6_AsClaimed ==
    [][(Dispatched /\ LastFor(added["t1"], call'["g1"].name, call'["g1"].args) # 0) =>
          /\ ret'["g1"].kind = "cmd"
          /\ ret'["g1"].cmd = LastFor(added["t1"], call'["g1"].name, call'["g1"].args)]_vars

\* C7: dispatching a (name, args) pair that was not registered never
\* returns a Cmd: it panics with the message naming the pair.
C7_AsClaimed ==
    [][(Dispatched /\ LastFor(added["t1"], call'["g1"].name, call'["g1"].args) = 0) =>
          /\ ret'["g1"].kind = "panic"
          /\ ret'["g1"].err.fmt =
               "cmdexec: no command registered for '%s %s' missing call to MockExecutor.AddCommand?"
          /\ ret'["g1"].err.x = call'["g1"].name
          /\ ret'["g1"].err.y = Join(call'["g1"].args, SP)]_vars

\* C8: a dispatched invocation and a registered command have the same key
\* if and only if their names are equal and their argument lists are the
\* same sequence.
C8_AsClaimed ==
    \A i \in 1..Len(added["t1"]) :
        LET cmd == CmdPool[added["t1"][i]] IN
        (getCommandKey(cmd.Name, cmd.Args)
            = getCommandKey(call["g1"].name, call["g1"].args))
        <=> (cmd.Name = call["g1"].name /\ cmd.Args = call["g1"].args)

\* C9: when a (name, args) pair was registered more than once, dispatch
\* returns the command registered last for that pair.
C9_AsClaimed ==
    [][(Dispatched /\ TimesAdded(added["t1"], call'["g1"].name, call'["g1"].args) > 1) =>
          /\ ret'["g1"].kind = "cmd"
          /\ CmdPool[ret'["g1"].cmd].Name = call'["g1"].name
          /\ CmdPool[ret'["g1"].cmd].Args = call'["g1"].args
          /\ \A i \in 1..Len(added["t1"]) :
                (/\ CmdPool[added["t1"][i]].Name = call'["g1"].name
                 /\ CmdPool[added["t1"][i]].Args = call'["g1"].args
                 /\ added["t1"][i] # ret'["g1"].cmd)
                    => \E j \in (i + 1)..Len(added["t1"]) :
                            added["t1"][j] = ret'["g1"].cmd]_vars

----------------------------------------------------------------------------
(* Properties of the stdin check.                                          *)

\* C10: when Stdin is expected and a reader was supplied, the check of
\* Run, Output and CombinedOutput passes if and only if the content of
\* the reader equals the expected bytes.
C10_AsClaimed ==
    LET r == ret["g1"] IN
    (r.kind = "value" /\ Len(CmdPool[r.cmd].Stdin) > 0 /\ ~srcBefore.isNil) =>
        ((r.err = CmdPool[r.cmd].Err) <=> (srcBefore.buf = CmdPool[r.cmd].Stdin))

\* The format of the error checkStdin builds when the bytes differ.
MismatchFormat == "expected stdin set by SetStdin() to be %q but got %q"

\* The format of the error checkStdin returns when stdin is nil.
NotProvidedFormat ==
    "expected stdin to be provided but it was not (was SetStdin() called?)"

\* C11: the mismatch error names the expected Stdin and, as the actual
\* input, the full content of the supplied reader and nothing else.
C11_AsClaimed ==
    LET r == ret["g1"] IN
    (r.kind = "value" /\ r.err.fmt = MismatchFormat) =>
        /\ r.err.x = CmdPool[r.cmd].Stdin
        /\ r.err.y = srcBefore.buf

C13_EmptyStdinNeverChecked ==
    [][(/\ lastOp' \in RunMethods
        /\ ret'["g1"].kind = "value"
        /\ Len(CmdPool[ret'["g1"].cmd].Stdin) = 0)
       => (/\ ret'["g1"].err = CmdPool[ret'["g1"].cmd].Err
           /\ stdin' = stdin)]_vars

C13_Witness ==
    LET r == ret["g1"] IN
    /\ r.kind = "value"
    /\ Len(CmdPool[r.cmd].Stdin) = 0
    /\ r.err = CmdPool[r.cmd].Err
    /\ ~srcBefore.isNil
    /\ srcBefore.buf # <<>>
    /\ stdin[r.cmd] = srcBefore

\* C14: a run returns the error of the stdin check whenever the check
\* fails, even when Err is scripted, and the scripted Err, nil or not,
\* only when the check passes.
C14_CheckErrorFirst ==
    LET r == ret["g1"]
        chk == checkStdin(CmdPool[r.cmd], srcBefore)
    IN  r.kind = "value" =>
            /\ (chk.err # NilErr) =>
                   /\ r.err = chk.err
                   /\ r.err.fmt \in {MismatchFormat, NotProvidedFormat, EOF.fmt}
            /\ (chk.err = NilErr) => (r.err = CmdPool[r.cmd].Err)

C14_Witness ==
    LET r == ret["g1"] IN
    /\ r.kind = "value"
    /\ CmdPool[r.cmd].Err # NilErr
    /\ r.err.fmt = MismatchFormat
    /\ r.err # CmdPool[r.cmd].Err


----------------------------------------------------------------------------
(* Properties of the outputs and the setters of a MockCommand.             *)

\* C15: every CombinedOutput call returns the scripted Stdout followed by
\* the scripted Stderr, also when repeated or interleaved with Output,
\* and every Output call still returns the scripted Stdout.
C15_CombinedIsStdoutThenStderr ==
    LET r == ret["g1"] IN
    /\ lastOp = "CombinedOutput" =>
           r.out = CmdPool[r.cmd].Stdout \o CmdPool[r.cmd].Stderr
    /\ lastOp = "Output" => r.out = CmdPool[r.cmd].Stdout

\* An Output that follows a CombinedOutput which appended in place.
C15_Witness ==
    LET r == ret["g1"] IN
    /\ lastOp = "Output"
    /\ CmdPool[r.cmd].Stderr # <<>>
    /\ stdoutArr[r.cmd] = CmdPool[r.cmd].Stdout \o CmdPool[r.cmd].Stderr
    /\ r.out = CmdPool[r.cmd].Stdout

\* C16: Output returns exactly the scripted Stdout, never Stderr, with the
\* error Run returns at that point: nil for a command that expects no
\* stdin and scripts no Err.
C16_OutputIsStdoutAndRunError ==
    LET r == ret["g1"]
        cmd == CmdPool[r.cmd]
    IN  lastOp = "Output" =>
            /\ r.out = cmd.Stdout
            /\ cmd.Stderr # <<>> => r.out # cmd.Stdout \o cmd.Stderr
            /\ r.err = RunError(cmd, checkStdin(cmd, srcBefore))
            /\ (Len(cmd.Stdin) = 0 /\ cmd.Err = NilErr) => r.err = NilErr

C16_Witness ==
    LET r == ret["g1"] IN
    /\ lastOp = "Output"
    /\ CmdPool[r.cmd].Stderr # <<>>
    /\ Len(CmdPool[r.cmd].Stdin) > 0
    /\ r.out = CmdPool[r.cmd].Stdout
    /\ r.err = ErrBoom

\* C17: SetEnviron, SetDir, SetStdout, SetStderr and UseOSStreams change
\* nothing of a MockCommand: no reader is supplied by them and what Run,
\* Output and CombinedOutput go by stays as it was.
C17_SettersChangeNothing ==
    [][lastOp' \in NoOpSetters =>
           UNCHANGED << stdin, stdoutArr, ret, srcBefore, nSetStdin >>]_vars

\* UseOSStreams was called on a command whose run had failed for want of
\* a reader, and the reader is still missing.
C17_Witness ==
    LET r == ret["g1"] IN
    /\ lastOp = "UseOSStreams"
    /\ r.kind = "value"
    /\ r.err.fmt = NotProvidedFormat
    /\ stdin[r.cmd].isNil

----------------------------------------------------------------------------
(* Properties of String and of the path resolver.                          *)

\* A step that is a String call and nothing else.
StringStep ==
    /\ lastOp' = "String"
    /\ UNCHANGED << pc, calls, cmds, added, lookups, osPaths >>
    /\ ret'["t1"].cmd \in CmdIds

\* The first word the package's current resolver gives for name: the
\* path it has, else name itself.
ResolverWord(name) ==
    IF lookPath = Std
        THEN IF execLookPath(name).err = NilErr THEN execLookPath(name).path ELSE name
    ELSE IF name \in DOMAIN lookups[lookPath] /\ lookups[lookPath][name].err = NilErr
        THEN lookups[lookPath][name].path
        ELSE name

\* What String gives for result r when word stands for the name.
Rendered(r, word) == r.out = Join(<<word>> \o CmdPool[r.cmd].Args, SP)

\* The first word exec.LookPath gives for name.
MachineWord(name) == IF osPaths[name] # NotFound THEN osPaths[name] ELSE name

\* C18, as claimed: String gives the name and the arguments joined by
\* single spaces, the name replaced by the path the path resolver has
\* registered for it (the installed mock's AddLookPath entry) and left as
\* it is otherwise.
C18_AsClaimed ==
    [][StringStep =>
           Rendered(ret'["t1"], ResolverWord(CmdPool[ret'["t1"].cmd].Name))]_vars

\* C18, amended: String gives the name and the arguments joined by single
\* spaces, the name replaced by the path exec.LookPath finds on the PATH
\* of the machine and left as it is when it finds none; what a mock has
\* registered with AddLookPath plays no part.
C18_StringUsesMachinePath ==
    [][StringStep =>
           Rendered(ret'["t1"], MachineWord(CmdPool[ret'["t1"].cmd].Name))]_vars

\* String answered with the machine's path while the installed mock has
\* another path registered for the name.
C18_Witness ==
    LET r == ret["t1"] IN
    /\ lastOp = "String"
    /\ pc["t1"] = "idle"
    /\ lookPath = "t1"
    /\ echo \in DOMAIN lookups["t1"]
    /\ lookups["t1"][echo].path = binEcho
    /\ r.kind = "value"
    /\ r.out = usrEcho \o SP \o hi

\* C19: with a mock installed, LookPath answers from the mock's path
\* registry alone: the registered path and no error, or an empty path and
\* the registered error, or a panic for a name not registered there,
\* whatever commands are registered; and a name registered as a path does
\* not make a command of that name dispatchable.
C19_LookPathByRegistry ==
    \A p \in Procs :
        /\ (pc[p] = "lp_runlock" /\ served[p] \in Tests) =>
               LET reg == lookups[served[p]]
                   n == call[p].name
               IN  /\ n \notin DOMAIN reg => ret[p].kind = "panic"
                   /\ (n \in DOMAIN reg /\ reg[n].err = NilErr) =>
                          ret[p] = Result("value", 0, reg[n].path, NilErr)
                   /\ (n \in DOMAIN reg /\ reg[n].err # NilErr) =>
                          ret[p] = Result("value", 0, <<>>, reg[n].err)
        /\ (pc[p] = "cc_runlock" /\ served[p] \in Tests
              /\ cmds[served[p]] = EmptyMap) => ret[p].kind = "panic"

\* LookPath of a name that is registered as a command only panics, while
\* the mock is installed.
C19_Witness ==
    /\ pc["g1"] = "lp_runlock"
    /\ served["g1"] = "t1"
    /\ call["g1"].name = echo
    /\ cmds["t1"] # EmptyMap
    /\ echo \notin DOMAIN lookups["t1"]
    /\ ret["g1"].kind = "panic"

----------------------------------------------------------------------------
(* Properties of the release of a substitution.                            *)

\* Where things stand between installs and releases: a handle has one
\* callback exactly when its test installed a mock, the write lock is held
\* exactly while some test is between its TryLock and its release, a test
\* whose cleanup is over has left neither function behind, and with every
\* substitution released the next TryLock succeeds.
ReleasePaired ==
    /\ \A t \in Tests : nCleanup[t] = (IF cleanup[t] = "restore" THEN 1 ELSE 0)
    /\ executorWLock <=> \E t \in Tests : Substituting(t)
    /\ \A t \in Tests : pc[t] = "done" => executor # t /\ lookPath # t
    /\ (\A t \in Tests : ~Substituting(t)) =>
           /\ TryLock(executorWLock)
           /\ executor = Std /\ lookPath = Std

\* What a step may do to callbacks and to the write lock: a callback is
\* registered only at the end of a successful UseMockExecutor, one at a
\* time and under the write lock; the write lock is released only by the
\* cleanup of the test holding it; and a test whose cleanup is over does
\* nothing more.
ReleaseStep ==
    /\ \A t \in Tests :
           nCleanup'[t] # nCleanup[t] =>
               /\ pc[t] = "um_cleanup" /\ executorWLock
               /\ nCleanup'[t] = nCleanup[t] + 1
    /\ (executorWLock /\ ~executorWLock') =>
           \E t \in Tests : /\ cleanup[t] = "restore"
                            /\ pc[t] = "cl_wunlock" /\ pc'[t] = "cl_runlock"
    /\ \A t \in Tests : pc[t] = "done" => pc'[t] = "done"

\* C20: every successful UseMockExecutor registers exactly one cleanup
\* callback, which restores the pair and releases the write lock once,
\* also when the test has failed or a call of it has panicked before the
\* cleanup runs; after the release a UseMockExecutor of any test succeeds.
C20_OneReleasePerInstall == []ReleasePaired /\ [][ReleaseStep]_vars

\* A test installed a mock, was then marked failed by a second
\* UseMockExecutor, and its cleanup ran; the other test has installed its
\* mock since.
C20_Witness ==
    \E t, u \in Tests :
        /\ t # u
        /\ pc[t] = "done" /\ failed[t] /\ nCleanup[t] = 1
        /\ cleanup[u] = "restore" /\ pc[u] = "idle"
        /\ executor = u /\ lookPath = u
        /\ ~failed[u]

----------------------------------------------------------------------------
(* Frame and invariants of the switchboard.                                *)

\* Test t takes one of the four steps that assign executor or lookPath:
\* lines 130 and 131 of a successful UseMockExecutor, lines 144 and 145
\* of its own cleanup callback.
AssignsPair(t) ==
    \/ /\ pc[t] = "um_setExec" /\ pc'[t] = "um_setLook"
       /\ executor' = t /\ lookPath' = lookPath
    \/ /\ pc[t] = "um_setLook" /\ pc'[t] = "um_runlock"
       /\ lookPath' = t /\ executor' = executor
    \/ /\ pc[t] = "cl_setExec" /\ pc'[t] = "cl_setLook"
       /\ executor' = originalExecutor[t] /\ lookPath' = lookPath
    \/ /\ pc[t] = "cl_setLook" /\ pc'[t] = "cl_wunlock"
       /\ lookPath' = originalLookPath[t] /\ executor' = executor

\* C21: the current executor and path resolver change only in a
\* successful UseMockExecutor and in the owning test's cleanup callback;
\* Command, CommandContext, LookPath, AddCommand, a failed UseMockExecutor
\* and a panic of the mock leave both as they are.
C21_PairChangesOnlyInInstallAndCleanup ==
    [][(executor' # executor \/ lookPath' # lookPath) =>
           \E t \in Tests : AssignsPair(t)]_vars

\* A call has panicked in the installed mock, another test's
\* UseMockExecutor has failed, and the mock is still the current pair.
C21_Witness ==
    \E t, u \in Tests :
        /\ t # u
        /\ pc["g1"] = "cc_runlock" /\ ret["g1"].kind = "panic" /\ served["g1"] = t
        /\ failed[u] /\ cleanup[u] = "nil"
        /\ added[t] # <<>>
        /\ executor = t /\ lookPath = t

\* C22: whenever the current executor or path resolver is a mock's, the
\* write lock is held; with the write lock free both are the real-OS
\* ones; and the pair a successful install saved is the real-OS pair.
C22_MockImpliesWriteLock ==
    /\ (executor # Std \/ lookPath # Std) => executorWLock
    /\ ~executorWLock => (executor = Std /\ lookPath = Std)
    /\ \A t \in Tests :
           (\/ pc[t] \in {"um_setExec", "um_setLook", "um_runlock", "um_cleanup"}
            \/ cleanup[t] = "restore") =>
               originalExecutor[t] = Std /\ originalLookPath[t] = Std

\* A second test has installed its mock after the first released its own,
\* and what it saved is the real-OS pair.
C22_Witness ==
    \E t, u \in Tests :
        /\ t # u
        /\ pc[t] = "done" /\ nCleanup[t] = 1
        /\ executorWLock
        /\ executor = u /\ lookPath = u
        /\ originalExecutor[u] = Std /\ originalLookPath[u] = Std

----------------------------------------------------------------------------
(* Progress of the two-lock protocol.                                      *)

\* Goroutine p is inside a call it has not returned from.
InCall(p) == pc[p] \notin {"idle", "done"}

\* Goroutine p is at a Lock() of the read lock.
WaitsForRLock(p) == pc[p] \in {"cc_rlock", "lp_rlock", "um_rlock", "cl_rlock"}

\* Goroutine p is between a Lock() and the Unlock() of the read lock.
HoldsRLock(p) ==
    pc[p] \in {"cc_exec", "cc_runlock", "lp_call", "lp_runlock", "um_save",
               "um_setExec", "um_setLook", "um_runlock", "cl_setExec",
               "cl_setLook", "cl_wunlock", "cl_runlock"}

\* Goroutine p leaves CommandContext or LookPath, by return or by panic.
Exits(p) == pc[p] \in {"cc_runlock", "lp_runlock"} /\ pc'[p] = "idle"

\* Some call is unwinding from a panic of the mock.
Panicking == \E p \in Procs : ret[p].kind = "panic"

\* C23: every exit of CommandContext and LookPath releases the read lock,
\* also the exit by a panic of the mock on an unregistered command or
\* path; the calls and the cleanup that wait for the read lock while a
\* call panics get it afterwards and complete, and so does the panicking
\* goroutine's next call.
C23_PanicReleasesReadLock ==
    /\ [][\A p \in Procs : Exits(p) => ~executorRLock']_vars
    /\ \A p \in Procs : (ret[p].kind = "panic") ~> (pc[p] = "idle" /\ ~executorRLock)
    /\ \A q \in Procs : (Panicking /\ WaitsForRLock(q)) ~> HoldsRLock(q)
    /\ \A q \in Procs : (Panicking /\ WaitsForRLock(q)) ~> ~InCall(q)

\* The goroutine's call has panicked in the installed mock and holds the
\* read lock, while the owning test's cleanup and the other test's call
\* wait for it.
C23_Witness ==
    \E t, u \in Tests :
        /\ t # u
        /\ pc["g1"] = "cc_runlock" /\ ret["g1"].kind = "panic" /\ served["g1"] = t
        /\ executorRLock
        /\ pc[t] = "cl_rlock"
        /\ pc[u] \in {"cc_rlock", "lp_rlock"}

\* C24: the two locks never deadlock: the read lock is held by exactly
\* the one goroutine between its Lock and Unlock, which is not waiting for
\* it, a UseMockExecutor call is never parked on the write lock, and under
\* fair scheduling every call that was started returns or panics.
C24_EveryCallReturns ==
    /\ [](/\ executorRLock <=> \E p \in Procs : HoldsRLock(p)
          /\ \A p, q \in Procs : HoldsRLock(p) /\ HoldsRLock(q) => p = q
          /\ \A t \in Tests : pc[t] = "um_rlock" => executorWLock)
    /\ \A p \in Procs : InCall(p) ~> ~InCall(p)

\* Both tests and the goroutine are inside calls, two of them waiting for
\* the read lock the third holds.
C24_Witness ==
    /\ \A p \in Procs : InCall(p)
    /\ \E p \in Procs : HoldsRLock(p)
    /\ \E p, q \in Procs : p # q /\ WaitsForRLock(p) /\ WaitsForRLock(q)
    /\ \E t \in Tests : pc[t] = "um_rlock"

----------------------------------------------------------------------------
(* What a stdin check leaves of the recorded reader.                       *)

\* The last n elements dropped from the front of seq.
Drop(seq, n) == SubSeq(seq, n + 1, Len(seq))

\* C26: each stdin check consumes the recorded reader: a passing check
\* takes len(Stdin) bytes off its front, a mismatching check drains it,
\* and a check on an exhausted reader returns the end-of-input error,
\* neither success nor a mismatch.
C26_AsClaimed ==
    LET r == ret["g1"]
        cmd == CmdPool[r.cmd]
        after == stdin[r.cmd]
    IN  (/\ r.kind = "value" /\ lastOp \in RunMethods
         /\ Len(cmd.Stdin) > 0 /\ ~srcBefore.isNil) =>
            /\ r.err = cmd.Err =>
                   /\ Len(srcBefore.buf) >= Len(cmd.Stdin)
                   /\ after.buf = Drop(srcBefore.buf, Len(cmd.Stdin))
            /\ r.err.fmt = MismatchFormat => after.buf = <<>>
            /\ srcBefore.buf = <<>> => (r.err = EOF /\ after.buf = <<>>)

\* The same with the passes of a reader shorter than Stdin left out: the
\* reader held at least len(Stdin) bytes or the check did not pass.
ConsumedButForShortPasses ==
    LET r == ret["g1"]
        cmd == CmdPool[r.cmd]
        after == stdin[r.cmd]
    IN  (/\ r.kind = "value" /\ lastOp \in RunMethods
         /\ Len(cmd.Stdin) > 0 /\ ~srcBefore.isNil
         /\ (Len(srcBefore.buf) >= Len(cmd.Stdin) \/ r.err # cmd.Err)) =>
            /\ r.err = cmd.Err => after.buf = Drop(srcBefore.buf, Len(cmd.Stdin))
            /\ r.err.fmt = MismatchFormat => after.buf = <<>>
            /\ srcBefore.buf = <<>> => (r.err = EOF /\ after.buf = <<>>)

----------------------------------------------------------------------------
(* The reader of a command across dispatches.                              *)

\* C25, as claimed: the reader SetStdin records stays with the registered
\* command across dispatches, so a run can return the 'stdin not
\* provided' error only if SetStdin was never called on that command.
C25_AsClaimed ==
    LET r == ret["g1"] IN
    (r.kind = "value" /\ lastOp \in RunMethods /\ r.err.fmt = NotProvidedFormat) =>
        r.cmd \notin everSet

\* Where the readers stand: a command SetStdin was never called on has
\* none, and a run returns the 'stdin not provided' error only when the
\* command has none: before the first SetStdin, or after a SetStdin(nil).
ReaderRecorded ==
    /\ \A id \in CmdIds : id \notin everSet => stdin[id].isNil
    /\ LET r == ret["g1"] IN
       (r.kind = "value" /\ lastOp \in RunMethods /\ r.err.fmt = NotProvidedFormat) =>
           /\ srcBefore.isNil
           /\ stdin[r.cmd].isNil

\* A dispatch gives the command the registry holds for the key and leaves
\* every reader as it was.
DispatchKeepsReaders ==
    (ret'["g1"] # ret["g1"] /\ ret'["g1"].kind = "cmd") =>
        /\ ret'["g1"].cmd =
               cmds["t1"][getCommandKey(call'["g1"].name, call'["g1"].args)]
        /\ stdin' = stdin

\* C25, amended: the reader SetStdin records stays with the registered
\* command across dispatches of its key; a run returns the 'stdin not
\* provided' error exactly while the command's recorded reader is nil,
\* that is before the first SetStdin on it or after a SetStdin(nil).
C25_ReaderStaysWithCommand == []ReaderRecorded /\ [][DispatchKeepsReaders]_vars

\* A command was given a reader, run, and dispatched again: the reader it
\* was given is still its reader.
C25_Witness ==
    LET r == ret["g1"] IN
    /\ r.kind = "cmd"
    /\ lastOp \in RunMethods
    /\ r.cmd \in everSet
    /\ ~stdin[r.cmd].isNil
    /\ stdin[r.cmd].buf # <<>>

====
